---- MODULE Spec2Model ----
(***************************************************************************)
(* A model of voro3d: the exported function voronoi() of src/voronoi.cpp   *)
(* (container sizing, point insertion, the cell loop and the face          *)
(* extraction that walks voro++'s edge table) and of the DirVector helper  *)
(* dot().                                                                  *)
(*                                                                         *)
(* src/voronoi.cpp holds two revisions of voronoi(): lines 33-173 and      *)
(* lines 209-365.  Validation, sizing, insertion and face extraction are   *)
(* the same statements in both; they differ in what the cell loop does     *)
(* when compute_cell() fails.  Spec is the later revision (FairSpec the   *)
(* same with the call running to its end), SpecOld the earlier one.        *)
(* SpecSizing runs validation and sizing alone over freely drawn           *)
(* coordinates and ratios; SpecVec applies dot() to small vectors.         *)
(*                                                                         *)
(* Doubles are modelled as exact fixed-point numbers: the integer v stands *)
(* for v / Unit.  All values used are multiples of 1 / Unit, so every      *)
(* product and quotient below is exact.                                    *)
(***************************************************************************)
EXTENDS Integers, Sequences, FiniteSets

(* ------------------------------ bounds --------------------------------- *)

\* Longest coordinate vector handed to voronoi().
MaxN == 2

\* Largest coordinate, in length units; coordinates are 0, 1 or MaxCoord.
MaxCoord == 3

\* containerRatio ranges over the multiples of 1 / RatioSteps from
\* (RatioSteps - 1) / RatioSteps (invalid) up to 2 + 1 / RatioSteps.
RatioSteps == 2

\* Components of the vectors handed to dot() range over -MaxComp .. MaxComp.
MaxComp == 1

(* --------------------------- fixed point ------------------------------- *)

Unit == 2 * RatioSteps

Fx(v) == v * Unit

Mul(v, w) == (v * w) \div Unit

Coord == {Fx(0), Fx(1), Fx(MaxCoord)}

Ratios == {2 * q : q \in (RatioSteps - 1)..(2 * RatioSteps + 1)}

SeqsOfLen(S, len) == [1..len -> S]

Min(s) == CHOOSE v \in {s[i] : i \in 1..Len(s)} :
             \A w \in {s[i] : i \in 1..Len(s)} : v <= w

Max(s) == CHOOSE v \in {s[i] : i \in 1..Len(s)} :
             \A w \in {s[i] : i \in 1..Len(s)} : v >= w

(* ------------------------- src/voronoi.cpp ----------------------------- *)

\* const double threshold = 2;
threshold == 2

setThreshold(v) == IF v < Fx(threshold) THEN Fx(threshold) ELSE v

\* The margin with the halving forgotten.
conMarginWhole(length, ratio) == Mul(length, ratio - Fx(1))

\* xLength * ( containerRatio - 1 ) / 2
conMargin(length, ratio) == Mul(length, ratio - Fx(1)) \div 2

\* The checks with the ratio compared against 0 instead of 1.
InvalidInputRatioZero(lx, ly, lz, ratio) ==
  \/ lx # ly \/ lx # lz
  \/ lx < 2
  \/ ratio < Fx(0)

\* The three Rcpp::stop() conditions at the head of voronoi().
InvalidInput(lx, ly, lz, ratio) ==
  \/ lx # ly \/ lx # lz
  \/ lx < 2
  \/ ratio < Fx(1)

\* Bounding box, floored lengths, margins and container vertices of one axis.
AxisBox(c, ratio) ==
  LET lo == Min(c)
      hi == Max(c)
      length == setThreshold(hi - lo)
      margin == conMargin(length, ratio)
  IN  [min |-> lo, max |-> hi, length |-> length, margin |-> margin,
       conMin |-> lo - margin, conMax |-> hi + margin]

(* ------------------------- voro++ cell tables -------------------------- *)

\* A voronoicell as compute_cell() leaves it: p vertices, nu[v] the order of
\* vertex v, ed[v] its nu[v] neighbours followed by, for each neighbour w,
\* the slot of v in ed[w].  Vertices and slots count from 0 as in the C++
\* code; sequences count from 1, hence the + 1 in EdAt.  Tetrahedron and
\* Box are the tables voro++ itself starts from (init_tetrahedron,
\* init_base); the others are convex cells with vertices of order 3 and 4.
Tetrahedron ==
  [p |-> 4, nu |-> <<3, 3, 3, 3>>,
   ed |-> <<<<1, 3, 2, 0, 0, 0>>,
           <<0, 2, 3, 0, 2, 1>>,
           <<0, 3, 1, 2, 2, 1>>,
           <<0, 1, 2, 1, 2, 1>>>>]

Box ==
  [p |-> 8, nu |-> <<3, 3, 3, 3, 3, 3, 3, 3>>,
   ed |-> <<<<1, 4, 2, 2, 1, 0>>,
           <<3, 5, 0, 2, 1, 0>>,
           <<0, 6, 3, 2, 1, 0>>,
           <<2, 7, 1, 2, 1, 0>>,
           <<6, 0, 5, 2, 1, 0>>,
           <<4, 1, 7, 2, 1, 0>>,
           <<7, 2, 4, 2, 1, 0>>,
           <<5, 3, 6, 2, 1, 0>>>>]

Prism ==
  [p |-> 6, nu |-> <<3, 3, 3, 3, 3, 3>>,
   ed |-> <<<<1, 3, 2, 0, 0, 0>>,
           <<0, 2, 4, 0, 2, 0>>,
           <<0, 5, 1, 2, 0, 1>>,
           <<0, 4, 5, 1, 2, 1>>,
           <<1, 5, 3, 2, 2, 1>>,
           <<2, 3, 4, 1, 2, 1>>>>]

Pyramid ==
  [p |-> 5, nu |-> <<4, 3, 3, 3, 3>>,
   ed |-> <<<<1, 2, 3, 4, 0, 0, 0, 0>>,
           <<0, 4, 2, 0, 2, 1>>,
           <<0, 1, 3, 1, 2, 1>>,
           <<0, 2, 4, 2, 2, 1>>,
           <<0, 3, 1, 3, 2, 1>>>>]

Octahedron ==
  [p |-> 6, nu |-> <<4, 4, 4, 4, 4, 4>>,
   ed |-> <<<<1, 4, 3, 2, 0, 0, 0, 0>>,
           <<0, 2, 5, 4, 0, 3, 0, 1>>,
           <<0, 3, 5, 1, 3, 3, 1, 1>>,
           <<0, 4, 5, 2, 2, 3, 2, 1>>,
           <<0, 1, 5, 3, 1, 3, 3, 1>>,
           <<1, 2, 3, 4, 2, 2, 2, 2>>>>]

\* The cells compute_cell() may hand back.
Cells == {Tetrahedron, Box, Prism, Pyramid, Octahedron}

NoCell == [p |-> 0, nu |-> <<>>, ed |-> <<>>]

Nu(c, v) == c.nu[v + 1]

EdAt(c, v, s) == c.ed[v + 1][s + 1]

\* v names a vertex of c, and s one of the 2 * nu[v] entries of ed[v].
IsVertex(c, v) == v >= 0 /\ v < c.p

InRow(c, v, s) == IsVertex(c, v) /\ s >= 0 /\ s < 2 * Nu(c, v)

\* voronoicell_base::cycle_up( a, v ): the slot after a at vertex v, wrapping.
cycle_up(c, a, v) == IF a = Nu(c, v) - 1 THEN 0 ELSE a + 1

\* The slot s itself taken for the reciprocal slot.
BackSlotSame(c, v, s) == s

\* vc.ed[v][vc.nu[v] + s]: the slot at which v sits in the row of ed[v][s].
BackSlot(c, v, s) == EdAt(c, v, Nu(c, v) + s)

\* The reciprocal slot without the cycle_up, and slot 0 whatever the edge.
NextSlotBack(c, v, s, w) == BackSlot(c, v, s)

NextSlotZero(c, v, s, w) == 0

\* vc.cycle_up( vc.ed[v][vc.nu[v] + s], w ): the slot of w that follows the
\* edge back to v.
NextSlot(c, v, s, w) == cycle_up(c, BackSlot(c, v, s), w)

\* The mark written as -kk instead of -1 - kk.
MarkNegate(e, v, s) == [e EXCEPT ![v + 1][s + 1] = 0 - @]

\* vc.ed[v][s] = -1 - vc.ed[v][s]
Mark(e, v, s) == [e EXCEPT ![v + 1][s + 1] = -1 - @]

\* for ( ii = 1; ... )
FirstStart == 1

(* ------------------------------ state ---------------------------------- *)

VARIABLES
  x, y, z, containerRatio,  \* the arguments of voronoi()
  pc,                       \* where voronoi() stands
  cellGeometry, cGCount,    \* the result vector and its cursor
  axes,                     \* per axis: bounding box, length, margin, container
  po, putI,                 \* particle_order: ids in insertion order; put index
  clo,                      \* c_loop_order: position in po (from 1)
  vc,                       \* the voronoicell the loop works on
  ii, jj, kk, ll, mm,       \* the face walk's locals
  polyhedralsurface,        \* triangles <<ii, kk, mm>> appended so far
  ed0,                      \* history: vc.ed as compute_cell() returned it
  marks,                    \* history: how often each ed[v][s] was marked
  rings,                    \* history: the vertex ring of each walk started
  owner,                    \* history: the particle whose iteration wrote entry c
  failed,                   \* history: particles whose compute_cell() failed
  va, vb, dotResult, vpc    \* DirVector: the arguments and result of dot()

vars == <<x, y, z, containerRatio, pc, cellGeometry, cGCount, axes, po, putI,
          clo, vc, ii, jj, kk, ll, mm, polyhedralsurface, ed0, marks, rings,
          owner, failed, va, vb, dotResult, vpc>>

inputVars == <<x, y, z, containerRatio>>

walkVars == <<vc, ii, jj, kk, ll, mm, polyhedralsurface, ed0, marks, rings>>

vecVars == <<va, vb, dotResult, vpc>>

n == Len(x)

Unsized == [min |-> 0, max |-> 0, length |-> 0, margin |-> 0,
            conMin |-> 0, conMax |-> 0]

\* An entry of a fresh Rcpp::StringVector( n ), NA_STRING, and a surface.
EmptyString == [kind |-> "empty", tris |-> <<>>]

NaString == [kind |-> "NA", tris |-> <<>>]

Surface(t) == [kind |-> "surface", tris |-> t]

Prefix(s, len) == [i \in 1..len |-> s[i]]

\* What every initial state shares: nothing computed yet.
InitRest ==
  /\ cellGeometry = <<>> /\ cGCount = 0
  /\ axes = [X |-> Unsized, Y |-> Unsized, Z |-> Unsized]
  /\ po = <<>> /\ putI = 0 /\ clo = 0
  /\ vc = NoCell /\ ii = 0 /\ jj = 0 /\ kk = 0 /\ ll = 0 /\ mm = 0
  /\ polyhedralsurface = <<>>
  /\ ed0 = <<>> /\ marks = <<>> /\ rings = <<>>
  /\ owner = <<>> /\ failed = {}

InitVecIdle ==
  /\ va = <<0, 0, 0>> /\ vb = <<0, 0, 0>> /\ dotResult = 0 /\ vpc = "idle"

\* voronoi() called with vectors of any lengths up to MaxN, whose points lie
\* on the diagonal x = y = z at 0 or MaxCoord where the lengths agree, and
\* with a ratio below 1, of 1 (no margin) or of 2.
Init ==
  /\ \E lx \in 0..MaxN, ly \in 0..MaxN, lz \in 0..MaxN :
       \E c \in SeqsOfLen({Fx(0), Fx(MaxCoord)}, MaxN) :
         /\ x = Prefix(c, lx) /\ y = Prefix(c, ly) /\ z = Prefix(c, lz)
  /\ containerRatio \in {Fx(1) - 2, Fx(1), Fx(2)}
  /\ pc = "entry"
  /\ InitRest
  /\ InitVecIdle

(* ---------------------- voronoi(): validation, sizing ------------------- *)

\* Lines 231-243: the three checks, then the result vector and its cursor.
Validate ==
  /\ pc = "entry"
  /\ IF InvalidInput(Len(x), Len(y), Len(z), containerRatio)
       THEN /\ pc' = "stopped"
            /\ UNCHANGED <<cellGeometry, cGCount, owner>>
       ELSE /\ pc' = "size"
            /\ cellGeometry' = [i \in 1..n |-> EmptyString]
            /\ owner' = [i \in 1..n |-> -1]
            /\ cGCount' = 0
  /\ UNCHANGED <<inputVars, axes, po, putI, clo, walkVars, failed, vecVars>>

\* Lines 245-280: bounding box, lengths, margins, container.  (The grid
\* counts nx, ny, nz only tune voro++'s search and are left out.)
Size ==
  /\ pc = "size"
  /\ axes' = [X |-> AxisBox(x, containerRatio),
              Y |-> AxisBox(y, containerRatio),
              Z |-> AxisBox(z, containerRatio)]
  /\ putI' = 0
  /\ pc' = "put"
  /\ UNCHANGED <<inputVars, cellGeometry, cGCount, po, clo, walkVars, owner,
                 failed, vecVars>>

(* ------------------------ voronoi(): insertion -------------------------- *)

\* Point i (from 0) lies in the half-open block range of the container on
\* every axis: conMin <= c < conMax.
StrictlyInside(i) ==
  /\ axes.X.conMin <= x[i + 1] /\ x[i + 1] < axes.X.conMax
  /\ axes.Y.conMin <= y[i + 1] /\ y[i + 1] < axes.Y.conMax
  /\ axes.Z.conMin <= z[i + 1] /\ z[i + 1] < axes.Z.conMax

\* con.put( po, i, x[i], y[i], z[i] ).  voro++'s container::put() stores a
\* particle, and appends it to po, only if put_remap() finds its block:
\* ijk = step_int( ( x - ax ) * nx / ( bx - ax ) ) must be in 0 .. nx - 1.
\* A point strictly inside is always stored.  A point with a coordinate on
\* the upper face (margin 0) gets ijk = nx and is dropped, unless rounding
\* of the product lands below nx; on an axis with bx = ax the product is
\* 0 * inf and its conversion to int is undefined.  Both are a choice here.
PutStored(i) == IF StrictlyInside(i) THEN {TRUE} ELSE BOOLEAN

\* Lines 282-284, one iteration.
Put ==
  /\ pc = "put"
  /\ putI < n
  /\ \E stored \in PutStored(putI) :
       po' = IF stored THEN Append(po, putI) ELSE po
  /\ putI' = putI + 1
  /\ UNCHANGED <<inputVars, pc, cellGeometry, cGCount, axes, clo, walkVars,
                 owner, failed, vecVars>>

\* Lines 287-288: c_loop_order clo( con, po ); clo.start() is false when po
\* is empty, and voronoi() then returns cellGeometry as it stands.
StartLoop ==
  /\ pc = "put"
  /\ putI = n
  /\ IF Len(po) > 0
       THEN pc' = "cell" /\ clo' = 1
       ELSE pc' = "done" /\ clo' = 0
  /\ UNCHANGED <<inputVars, cellGeometry, cGCount, axes, po, putI, walkVars,
                 owner, failed, vecVars>>

\* clo.inc(): on to the next particle of po, or out of the loop.
Inc ==
  IF clo < Len(po)
    THEN pc' = "cell" /\ clo' = clo + 1
    ELSE pc' = "done" /\ clo' = clo

\* The particle the loop stands on.
Pid == po[clo]

ZeroMarks(c) == [v \in 1..c.p |-> [s \in 1..(2 * c.nu[v]) |-> 0]]

\* Line 292, true branch, to line 317: compute_cell() hands back a cell; the
\* traversal starts at vertex 1, slot 0.
ComputeCellOk ==
  /\ pc = "cell"
  /\ \E c \in Cells :
       /\ vc' = c
       /\ ed0' = c.ed
       /\ marks' = ZeroMarks(c)
  /\ polyhedralsurface' = <<>>
  /\ rings' = <<>>
  /\ ii' = FirstStart /\ jj' = 0
  /\ pc' = "outer"
  /\ UNCHANGED <<inputVars, cellGeometry, cGCount, axes, po, putI, clo, kk, ll,
                 mm, owner, failed, vecVars>>

\* Lines 292, 356-361: compute_cell() fails; NA_STRING at the cursor, the
\* cursor advances, clo.inc().
ComputeCellFail ==
  /\ pc = "cell"
  /\ cellGeometry' = [cellGeometry EXCEPT ![cGCount + 1] = NaString]
  /\ owner' = [owner EXCEPT ![cGCount + 1] = Pid]
  /\ cGCount' = cGCount + 1
  /\ failed' = failed \cup {Pid}
  /\ Inc
  /\ UNCHANGED <<inputVars, axes, po, putI, walkVars, vecVars>>

\* Lines 107, 170 of the earlier revision: compute_cell() fails; nothing is
\* written, the cursor stays, clo.inc().
ComputeCellFailOld ==
  /\ pc = "cell"
  /\ failed' = failed \cup {Pid}
  /\ Inc
  /\ UNCHANGED <<inputVars, cellGeometry, cGCount, owner, axes, po, putI,
                 walkVars, vecVars>>

(* --------------------- voronoi(): face extraction ----------------------- *)

Count(m, v, s) == [m EXCEPT ![v + 1][s + 1] = @ + 1]

WithEd(c, e) == [c EXCEPT !.ed = e]

\* A read outside the cell's arrays: undefined behaviour.  No cell of Cells
\* leads here (WalkInBounds); the state only keeps a wrong walk from reading
\* outside the model's tables.
OutOfBounds ==
  /\ pc' = "ub"
  /\ UNCHANGED <<walkVars>>

\* Lines 319-320, loop exit: no slot left at ii; next vertex.
NextVertex ==
  /\ pc = "outer"
  /\ ii < vc.p
  /\ jj >= Nu(vc, ii)
  /\ ii' = ii + 1 /\ jj' = 0
  /\ UNCHANGED <<inputVars, pc, cellGeometry, cGCount, axes, po, putI, clo, vc,
                 kk, ll, mm, polyhedralsurface, ed0, marks, rings, owner,
                 failed, vecVars>>

\* Lines 321-322, kk < 0: the edge is marked already; next slot.
SkipMarked ==
  /\ pc = "outer"
  /\ ii < vc.p
  /\ jj < Nu(vc, ii)
  /\ EdAt(vc, ii, jj) < 0
  /\ kk' = EdAt(vc, ii, jj)
  /\ jj' = jj + 1
  /\ UNCHANGED <<inputVars, pc, cellGeometry, cGCount, axes, po, putI, clo, vc,
                 ii, ll, mm, polyhedralsurface, ed0, marks, rings, owner,
                 failed, vecVars>>

\* Lines 321-327: an unmarked edge (ii, jj) starts a walk; it and the edge
\* that follows it around the face are marked.
StartFace ==
  /\ pc = "outer"
  /\ ii < vc.p
  /\ jj < Nu(vc, ii)
  /\ EdAt(vc, ii, jj) >= 0
  /\ LET k  == EdAt(vc, ii, jj)
         e1 == Mark(vc.ed, ii, jj)
         c1 == WithEd(vc, e1)
     IN  IF ~IsVertex(vc, k)
           THEN OutOfBounds
           ELSE LET l == NextSlot(c1, ii, jj, k)
                IN  IF ~InRow(c1, k, l)
                      THEN OutOfBounds
                      ELSE /\ kk' = k
                           /\ ll' = l
                           /\ mm' = EdAt(c1, k, l)
                           /\ vc' = WithEd(vc, Mark(e1, k, l))
                           /\ marks' = Count(Count(marks, ii, jj), k, l)
                           /\ rings' = Append(rings, <<ii, k>>)
                           /\ pc' = "walk"
                           /\ UNCHANGED <<ii, jj, polyhedralsurface, ed0>>
  /\ UNCHANGED <<inputVars, cellGeometry, cGCount, axes, po, putI, clo, owner,
                 failed, vecVars>>

\* Lines 328-346, one iteration: the triangle (ii, kk, mm) is appended, the
\* walk moves to mm and marks the edge that leaves it.
WalkStep ==
  /\ pc = "walk"
  /\ mm # ii
  /\ IF ~(IsVertex(vc, mm) /\ InRow(vc, kk, Nu(vc, kk) + ll))
       THEN OutOfBounds
       ELSE LET nn == NextSlot(vc, kk, ll, mm)
            IN  IF ~InRow(vc, mm, nn)
                  THEN OutOfBounds
                  ELSE /\ polyhedralsurface' =
                            Append(polyhedralsurface, <<ii, kk, mm>>)
                       /\ kk' = mm
                       /\ ll' = nn
                       /\ mm' = EdAt(vc, mm, nn)
                       /\ vc' = WithEd(vc, Mark(vc.ed, mm, nn))
                       /\ marks' = Count(marks, mm, nn)
                       /\ rings' = [rings EXCEPT ![Len(rings)] = Append(@, mm)]
                       /\ pc' = "walk"
                       /\ UNCHANGED <<ii, jj, ed0>>
  /\ UNCHANGED <<inputVars, cellGeometry, cGCount, axes, po, putI, clo, owner,
                 failed, vecVars>>

\* Line 328, mm == ii: the walk is back at its start; next slot.
WalkEnd ==
  /\ pc = "walk"
  /\ mm = ii
  /\ jj' = jj + 1
  /\ pc' = "outer"
  /\ UNCHANGED <<inputVars, cellGeometry, cGCount, axes, po, putI, clo, vc, ii,
                 kk, ll, mm, polyhedralsurface, ed0, marks, rings, owner,
                 failed, vecVars>>

\* Lines 317, 351-353, 359-361: no vertex left; the surface is stored at the
\* cursor, the cursor advances, clo.inc().
CellDone ==
  /\ pc = "outer"
  /\ ii >= vc.p
  /\ cellGeometry' = [cellGeometry EXCEPT ![cGCount + 1] =
                        Surface(polyhedralsurface)]
  /\ owner' = [owner EXCEPT ![cGCount + 1] = Pid]
  /\ cGCount' = cGCount + 1
  /\ Inc
  /\ UNCHANGED <<inputVars, axes, po, putI, walkVars, failed, vecVars>>

(* ------------------------------ DirVector ------------------------------ *)

\* double dot( DirVector& a, DirVector& b ); i, j, k are components 1, 2, 3.
dot(u, w) == (u[1] * w[1]) + (u[2] + w[2]) + (u[3] + w[3])

Comp == (0 - MaxComp)..MaxComp

Dot ==
  /\ vpc = "idle"
  /\ dotResult' = dot(va, vb)
  /\ vpc' = "done"
  /\ UNCHANGED <<inputVars, pc, cellGeometry, cGCount, axes, po, putI, clo,
                 walkVars, owner, failed, va, vb>>

(* --------------------------- specifications ---------------------------- *)

\* voronoi(), lines 209-365.
Next ==
  \/ Validate \/ Size \/ Put \/ StartLoop
  \/ ComputeCellOk \/ ComputeCellFail
  \/ NextVertex \/ SkipMarked \/ StartFace \/ WalkStep \/ WalkEnd
  \/ CellDone

Spec == Init /\ [][Next]_vars

\* voronoi() runs to its end: it is one sequential call.
FairSpec == Init /\ [][Next]_vars /\ WF_vars(Next)

\* voronoi(), lines 33-173.
NextOld ==
  \/ Validate \/ Size \/ Put \/ StartLoop
  \/ ComputeCellOk \/ ComputeCellFailOld
  \/ NextVertex \/ SkipMarked \/ StartFace \/ WalkStep \/ WalkEnd
  \/ CellDone

SpecOld == Init /\ [][NextOld]_vars

\* Container sizing on its own: valid lengths, every axis drawn freely.
InitSizing ==
  /\ \E len \in 2..MaxN :
       /\ x \in SeqsOfLen(Coord, len)
       /\ y \in SeqsOfLen(Coord, len)
       /\ z \in SeqsOfLen(Coord, len)
  /\ containerRatio \in Ratios
  /\ pc = "entry"
  /\ InitRest
  /\ InitVecIdle

NextSizing == Validate \/ Size

SpecSizing == InitSizing /\ [][NextSizing]_vars

\* dot() on its own.
InitVec ==
  /\ va \in [1..3 -> Comp] /\ vb \in [1..3 -> Comp]
  /\ dotResult = 0 /\ vpc = "idle"
  /\ x = <<>> /\ y = <<>> /\ z = <<>> /\ containerRatio = Fx(1)
  /\ pc = "off"
  /\ InitRest

NextVec == Dot

SpecVec == InitVec /\ [][NextVec]_vars

(* ------------------------- helpers of the claims ------------------------ *)

RECURSIVE SumSeq(_)
SumSeq(s) == IF s = <<>> THEN 0 ELSE Head(s) + SumSeq(Tail(s))

Vertices(c) == 0..(c.p - 1)

Slots(c, v) == 0..(Nu(c, v) - 1)

\* The cell's number of undirected edges: half its directed ones.
EdgeCount(c) == SumSeq(c.nu) \div 2

MarkedEntries == SumSeq([v \in 1..Len(marks) |-> SumSeq(marks[v])])

\* The traversal of the current cell is over (and the cell still in vc).
Extracted ==
  /\ vc # NoCell
  /\ \/ pc = "outer" /\ ii >= vc.p
     \/ pc \in {"cell", "done"}

\* The table compute_cell() returned satisfies the reciprocity invariant.
Reciprocal(e, nu) ==
  \A v \in 1..Len(e) : \A s \in 1..nu[v] :
    LET w == e[v][s] + 1
        t == e[v][nu[v] + s] + 1
    IN  w \in 1..Len(e) /\ t \in 1..nu[w] /\ e[w][t] = v - 1
        /\ e[w][nu[w] + t] = s - 1

RingEdges(r) == {<<r[i], r[(i % Len(r)) + 1]>> : i \in 1..Len(r)}

\* The triangle fan (ii, kk, mm) of a ring.
FanOf(r) == [j \in 1..(Len(r) - 2) |-> <<r[1], r[j + 1], r[j + 2]>>]

RECURSIVE Fans(_)
Fans(rs) == IF rs = <<>> THEN <<>> ELSE FanOf(Head(rs)) \o Fans(Tail(rs))

(* ------------------------------- claims -------------------------------- *)

\* C1: for every valid input (ratio 1 included) the returned vector has n
\* entries and entry p was written by the iteration of input point p: every
\* point is inserted, processed in order, and the cursor advances once per
\* point, so no entry is unwritten or shifted.
C1_OutputAligned ==
  pc = "done" =>
    /\ Len(cellGeometry) = n
    /\ Len(po) = n
    /\ \A q \in 1..n : owner[q] = q - 1 /\ cellGeometry[q] # EmptyString

\* What does hold of the later revision: when every point was stored by
\* con.put(), the entries are aligned with the input.
AlignedWhenAllStored ==
  (pc = "done" /\ Len(po) = n) =>
    \A q \in 1..n : owner[q] = q - 1 /\ cellGeometry[q] # EmptyString

\* C2: when compute_cell fails for point p the failure marker is written at
\* p's own position, the cursor advances and the loop goes on: at the end
\* every failed point has the marker at its position and every other point
\* its surface at its own.  (Stated for runs in which con.put() stored all
\* points, so that the entries' positions are those of the input.)
C2_FailureMarkedInPlace ==
  (pc = "done" /\ Len(po) = n) =>
    /\ cGCount = n
    /\ \A q \in 1..n :
         IF (q - 1) \in failed
           THEN cellGeometry[q] = NaString /\ owner[q] = q - 1
           ELSE cellGeometry[q].kind = "surface" /\ owner[q] = q - 1

\* C3: voronoi stops with an input error exactly when the lengths differ,
\* or there are fewer than 2 points, or containerRatio < 1; it stops before
\* the container is sized, any point inserted or any entry produced.
C3_ValidationExact ==
  pc # "entry" =>
    /\ (pc = "stopped") <=>
         \/ Len(x) # Len(y) \/ Len(x) # Len(z)
         \/ Len(x) < 2
         \/ containerRatio < Fx(1)
    /\ pc = "stopped" =>
         /\ axes = [X |-> Unsized, Y |-> Unsized, Z |-> Unsized]
         /\ po = <<>> /\ putI = 0
         /\ cellGeometry = <<>> /\ owner = <<>>
         /\ vc = NoCell

C3_Witness ==
  /\ pc = "stopped"
  /\ Len(x) = Len(y) /\ Len(x) = Len(z) /\ Len(x) >= 2

\* C4: on a cell whose table is reciprocal, no directed edge is ever marked
\* twice, and when the traversal is over every directed edge (v, slot),
\* those leaving vertex 0 included, is marked exactly once: the number of
\* marked entries is twice the number of undirected edges.
C4_EveryEdgeOnce ==
  /\ pc # "ub"
  /\ vc # NoCell =>
       /\ Reciprocal(ed0, vc.nu)
       /\ \A v \in Vertices(vc) : \A s \in 0..(2 * Nu(vc, v) - 1) :
            /\ marks[v + 1][s + 1] <= 1
            /\ s >= Nu(vc, v) => marks[v + 1][s + 1] = 0
  /\ Extracted =>
       /\ \A v \in Vertices(vc) : \A s \in Slots(vc, v) :
            marks[v + 1][s + 1] = 1 /\ EdAt(vc, v, s) < 0
       /\ MarkedEntries = 2 * EdgeCount(vc)

C4_Witness ==
  /\ Extracted
  /\ vc.p = 5
  /\ Nu(vc, 0) = 4
  /\ \A s \in Slots(vc, 0) : marks[1][s + 1] = 1

\* C5: the traversal starts exactly one closed walk per face: E - V + 2
\* walks for a cell of V vertices and E edges, each returning to its start
\* along edges of the cell, and no two walks going round the same face.
C5_OneLoopPerFace ==
  Extracted =>
    /\ Len(rings) = EdgeCount(vc) - vc.p + 2
    /\ \A i \in 1..Len(rings) :
         /\ Len(rings[i]) >= 3
         /\ \A e \in RingEdges(rings[i]) :
              \E s \in Slots(vc, e[1]) : ed0[e[1] + 1][s + 1] = e[2]
    /\ \A i \in 1..Len(rings) : \A j \in 1..Len(rings) :
         i # j => RingEdges(rings[i]) \cap RingEdges(rings[j]) = {}

C5_Witness ==
  /\ Extracted
  /\ vc.p = 8
  /\ Len(rings) = 6

\* C6: on every axis the margin is max(extent, floor) * (ratio - 1) / 2 on
\* each side; ratio 1 gives margin 0 (the container is the bounding box),
\* ratio 2 gives half the axis length, and the bounding box, which is the
\* ratio-1 container of the same points, lies inside the ratio-2 container.
AxisMarginOk(ax, c) ==
  LET extent == Max(c) - Min(c)
      length == IF extent > Fx(threshold) THEN extent ELSE Fx(threshold)
  IN  /\ ax.length = length
      /\ 2 * Unit * ax.margin = length * (containerRatio - Unit)
      /\ ax.conMin = Min(c) - ax.margin
      /\ ax.conMax = Max(c) + ax.margin
      /\ containerRatio = Fx(1) =>
           ax.margin = 0 /\ ax.conMin = Min(c) /\ ax.conMax = Max(c)
      /\ containerRatio = Fx(2) =>
           /\ 2 * ax.margin = length
           /\ ax.conMin < Min(c) /\ Max(c) < ax.conMax

C6_Margins ==
  pc = "put" =>
    /\ AxisMarginOk(axes.X, x)
    /\ AxisMarginOk(axes.Y, y)
    /\ AxisMarginOk(axes.Z, z)

C6_Witness ==
  /\ pc = "put"
  /\ containerRatio = Fx(2)
  /\ axes.X.margin = Fx(1)
  /\ 2 * axes.Y.margin = Fx(MaxCoord)

\* C7 as stated: the topology table after extraction is the table as it
\* was before extraction started.
C7_TableUntouched ==
  Extracted => vc.ed = ed0

\* C7 amended: extraction marks the table in place and does not restore
\* it.  Every neighbour entry is either still w or its mark -1 - w, after
\* extraction all of them are -1 - w, and the reciprocal-slot entries, nu
\* and p are never changed.
C7_TableMarkedInPlace ==
  vc # NoCell =>
    /\ \E c \in Cells : c.ed = ed0 /\ c.nu = vc.nu /\ c.p = vc.p
    /\ \A v \in Vertices(vc) :
         /\ \A s \in Slots(vc, v) :
              /\ EdAt(vc, v, s) \in {ed0[v + 1][s + 1], -1 - ed0[v + 1][s + 1]}
              /\ Extracted => EdAt(vc, v, s) = -1 - ed0[v + 1][s + 1]
         /\ \A s \in Nu(vc, v)..(2 * Nu(vc, v) - 1) :
              EdAt(vc, v, s) = ed0[v + 1][s + 1]

C7_Witness ==
  /\ Extracted
  /\ vc.ed # ed0
  /\ EdAt(vc, 0, 0) = -1 - ed0[1][1]

\* C8: the box handed to the container has extent (max - min) of at least
\* the floor of 2 length units on every axis.
C8_ContainerExtentFloor ==
  pc = "put" =>
    /\ axes.X.conMax - axes.X.conMin >= Fx(threshold)
    /\ axes.Y.conMax - axes.Y.conMin >= Fx(threshold)
    /\ axes.Z.conMax - axes.Z.conMin >= Fx(threshold)

\* C9: dot(a, b) is a.i * b.i + a.j * b.j + a.k * b.k.
C9_DotProduct ==
  vpc = "done" =>
    dotResult = (va[1] * vb[1]) + (va[2] * vb[2]) + (va[3] * vb[3])

\* C10: face extraction terminates.  Every walk started at an unmarked
\* edge comes back to ii, each of its steps marks an edge that was
\* unmarked, a walk round k vertices has emitted k - 2 triangles (ii, kk,
\* mm) when it closes, and the loops over vertices and slots then finish.
WalkShape ==
  /\ pc # "ub"
  /\ (pc = "walk" /\ mm = ii) =>
       LET r == rings[Len(rings)]
       IN  /\ Cardinality({r[i] : i \in 1..Len(r)}) = Len(r)
           /\ polyhedralsurface = Fans(rings)
           /\ Len(polyhedralsurface) =
                SumSeq([i \in 1..Len(rings) |-> Len(rings[i]) - 2])

MarksFresh ==
  (pc' = "walk" /\ marks' # marks) =>
    /\ mm' >= 0
    /\ marks[kk' + 1][ll' + 1] = 0
    /\ EdAt(vc, kk', ll') = mm'
    /\ EdAt(vc', kk', ll') = -1 - mm'

C10_ExtractionTerminates ==
  /\ []WalkShape
  /\ [][MarksFresh]_vars
  /\ (pc = "walk") ~> (pc = "outer")
  /\ (pc = "outer") ~> (pc \in {"cell", "done"})

C10_Witness ==
  /\ pc = "walk" /\ mm = ii
  /\ Len(rings[Len(rings)]) = 4
  /\ Len(polyhedralsurface) >= 2

====
